---- MODULE Spec2Model ----
(***************************************************************************)
(* JWT invalidation registry (src/main.py): key derivation, the exact      *)
(* expiry-aware backend (CacheTokenInvalidator, one redis key per revoked  *)
(* token with a time-to-live) and the probabilistic backend                *)
(* (BloomFilterTokenInvalidator, one walrus bloom filter), both on the     *)
(* same redis server (host localhost, port 6379, db 0).                    *)
(*                                                                         *)
(* Strings are sequences of one-character strings.  Time is counted in     *)
(* ticks, Res ticks to the second: time.time() is a float, int(time.time())*)
(* is its truncation to whole seconds, and redis counts a time-to-live     *)
(* from its own (millisecond) clock.                                       *)
(***************************************************************************)
EXTENDS Integers, Sequences, FiniteSets, TLC

VARIABLES
    clock,      \* time.time(), in ticks
    kv,         \* redis string keys of db 0: key -> [value, exat]
    bits,       \* the bits set in the redis key "walrus:jwt-blacklist:"
    revoked,    \* history: per backend, the tokens invalidate_token returned True for since the last clear()
    exactLive,  \* history: the tokens revoked through the exact backend while exp > now, since the last clear()
    wiped,      \* history: per backend, the tokens whose revocation the last clear() erased (until the next revocation)
    last,       \* the most recent step: [op, backend, result]
    keyArgs,    \* SpecKey: the two decoded tokens given to get_invalidation_cache_key
    keyRes,     \* SpecKey: the two results
    pc,         \* SpecBench: where main() / benchmark() stands
    num,        \* SpecBench: the argument of jwt_token_generator
    count,      \* SpecBench: the generator's counter
    tokens,     \* SpecBench: main's list of generated tokens
    kls,        \* SpecBench: index of the class under test in main's `classes`
    idx,        \* SpecBench: position of the running for-loop in tokens
    num_errors, \* SpecBench: benchmark's error counter
    out,        \* SpecBench: the lines printed so far
    log,        \* SpecBench history: the calls made so far, [op, kls, i, result]
    genAt       \* SpecBench history: the clock at which each token was generated

hvars == <<pc, num, count, tokens, kls, idx, num_errors, out, log, genAt>>

vars == <<clock, kv, bits, revoked, exactLive, wiped, last, keyArgs, keyRes, hvars>>

----------------------------------------------------------------------------
(* Bounds *)

MaxStrLen == 2      \* longest aud / jti string drawn in SpecKey
MaxExp == 1         \* the exp claim of most tokens, in seconds
Res == 2            \* clock ticks per second
MaxRevoked == 2     \* revocations recorded between two clear() calls
NumBits == 5        \* bits of the bloom filter
NumSeeds == 2       \* bit indices per key
MaxTokens == 2      \* most tokens main() generates (NUM_TOKENS)

\* the clock runs until every stored entry has expired
MaxClock == (MaxExp + 2) * Res

----------------------------------------------------------------------------
(* Python values *)

\* dict.get() of an absent claim
NoneVal == <<"<None>">>

\* bool(v) of a claim value: None and "" are falsy
Truthy(v) == v # NoneVal /\ v # <<>>

\* what an f-string makes of a claim value
Str(v) == IF v = NoneVal THEN <<"N", "o", "n", "e">> ELSE v

RTrue == "True"
RFalse == "False"
RNone == "None"
RValueError == "raise ValueError"
\* `return ValueError(...)`: the exception object handed back, not raised
RValueErrorObject == "return ValueError"

Alphabet == {"a", ":"}

RECURSIVE StringsOfLen(_)
StringsOfLen(n) ==
    IF n = 0 THEN {<<>>}
    ELSE {Append(s, c) : s \in StringsOfLen(n - 1), c \in Alphabet}

Strings == UNION {StringsOfLen(n) : n \in 0..MaxStrLen}

\* every decoded token (aud, jti) SpecKey draws: absent, empty, and non-empty claims
KeyClaims == [aud : Strings \cup {NoneVal}, jti : Strings \cup {NoneVal}]

----------------------------------------------------------------------------
(* Key derivation *)

KeyPrefix == <<"j", "w", "t", "-", "b", "l", "a", "c", "k", "l", "i", "s", "t", ":">>

\* raise ValueError when `not (jti or aud)`
KeyRaises(tok) == ~(Truthy(tok.jti) \/ Truthy(tok.aud))

\* f"jwt-blacklist:{aud}:{jti}"
KeyString(tok) == KeyPrefix \o Str(tok.aud) \o <<":">> \o Str(tok.jti)

get_invalidation_cache_key(tok) ==
    IF KeyRaises(tok) THEN [raised |-> TRUE, key |-> <<>>]
    ELSE [raised |-> FALSE, key |-> KeyString(tok)]

----------------------------------------------------------------------------
(* The decoded tokens the registry is driven with *)

\* (aud, jti): both absent; one absent; two different pairs with one key; a plain pair
TokenIds ==
    { [aud |-> NoneVal,     jti |-> NoneVal],
      [aud |-> NoneVal,     jti |-> <<"a">>],
      [aud |-> <<"a">>,     jti |-> NoneVal],
      [aud |-> <<"a">>,     jti |-> <<":", "a">>],
      [aud |-> <<"a", ":">>, jti |-> <<"a">>],
      [aud |-> <<"a">>,     jti |-> <<"a">>] }

\* a token's exp claim, in seconds: one per token; the two tokens that share a
\* key expire at different times
ExpOf(i) == IF i = [aud |-> <<"a", ":">>, jti |-> <<"a">>] THEN MaxExp + 1 ELSE MaxExp

Tokens == {[aud |-> i.aud, jti |-> i.jti, exp |-> ExpOf(i)] : i \in TokenIds}

Id(tok) == [aud |-> tok.aud, jti |-> tok.jti]

\* "foo-bar"
FooBar == <<"f", "o", "o", "-", "b", "a", "r">>

\* str(uuid.uuid4()): the n-th identifier drawn; every draw is a new one
Uuid(n) == [i \in 1..n |-> "f"]

\* the (aud, jti) of the tokens jwt_token_generator can yield
BenchIds == {[aud |-> FooBar, jti |-> Uuid(n)] : n \in 1..(MaxTokens + 1)}

Backends == {"cache", "bloom"}

----------------------------------------------------------------------------
(* The redis server: string keys with a time-to-live *)

RedisNil == "nil"

\* a reply as an `if` condition: None and b"" are falsy
ReplyTruthy(r) == r # RedisNil /\ r # ""

\* int(time.time())
IntTime(now) == now \div Res

\* SET key value EX ex, at server time now
RedisSet(db, key, value, ex, now) ==
    [k \in DOMAIN db \cup {key} |->
        IF k = key THEN [value |-> value, exat |-> now + ex * Res] ELSE db[k]]

\* GET key, at server time now
RedisGet(db, key, now) ==
    IF key \in DOMAIN db /\ db[key].exat > now THEN db[key].value ELSE RedisNil

\* the keys whose time-to-live has run out are gone
RedisExpire(db, now) == [k \in {x \in DOMAIN db : db[x].exat > now} |-> db[k]]

EmptyDb == [k \in {} |-> [value |-> "", exat |-> 0]]

\* INFO's used_memory_human, as the server sees it: it grows with the number of
\* keys held (the string keys, and the filter's key once a bit is set)
UsedMemoryHuman(db, bf) ==
    ToString(Cardinality(DOMAIN db) + (IF bf = {} THEN 0 ELSE 1)) \o "K"

----------------------------------------------------------------------------
(* walrus.BloomFilter: NumSeeds bit indices per key, taken from a digest *)

CharTable == KeyPrefix \o <<"N", "o", "n", "e">> \o <<"f", "r">>

Code(c) == CHOOSE i \in 1..Len(CharTable) : CharTable[i] = c

HashMod == 2 ^ 16

RECURSIVE Digest(_, _)
Digest(s, h) ==
    IF s = <<>> THEN h ELSE Digest(Tail(s), (h * 31 + Code(Head(s))) % HashMod)

\* the keys of the driven tokens, and each one's bit indices (computed once)
TokenKeys == {KeyString(i) : i \in TokenIds \cup BenchIds}

SeedTable == [key \in TokenKeys |-> {Digest(key, i) % NumBits : i \in 1..NumSeeds}]

BloomSeeds(key) == SeedTable[key]

BloomAdd(bf, key) == bf \cup BloomSeeds(key)

BloomContains(bf, key) == BloomSeeds(key) \subseteq bf

----------------------------------------------------------------------------
(* CacheTokenInvalidator *)

\* mutant: the time-to-live one second too long
TokenTTL_OffByOne(tok, now) == tok.exp - IntTime(now) + 1

\* ttl = exp - int(time.time())
TokenTTL(tok, now) == tok.exp - IntTime(now)

\* invalidate_token against db at time now: [result, db]
CacheInvalidate(tok, db, now) ==
    LET k == get_invalidation_cache_key(tok) IN
    IF k.raised THEN [result |-> RValueError, db |-> db]
    ELSE IF ~(Truthy(k.key) \/ tok.exp # 0)
    THEN [result |-> RValueErrorObject, db |-> db]
    ELSE [result |-> RTrue,
          db |-> IF TokenTTL(tok, now) > 0
                 THEN RedisSet(db, k.key, "1", TokenTTL(tok, now), now)
                 ELSE db]

\* is_token_valid against db at time now
CacheValid(tok, db, now) ==
    LET k == get_invalidation_cache_key(tok) IN
    IF k.raised THEN RValueError
    ELSE IF Truthy(k.key) /\ ReplyTruthy(RedisGet(db, k.key, now)) THEN RFalse
    ELSE RTrue

\* what is_token_valid(tok) returns in the current state
CacheIsValid(tok) == CacheValid(tok, kv, clock)

----------------------------------------------------------------------------
(* BloomFilterTokenInvalidator *)

\* mutant: the exact backend's skip of expired tokens, copied into this backend
BloomInvalidate_SkipsExpired(tok, bf, now) ==
    LET k == get_invalidation_cache_key(tok) IN
    IF k.raised THEN [result |-> RValueError, bf |-> bf]
    ELSE IF ~Truthy(k.key) THEN [result |-> RValueErrorObject, bf |-> bf]
    ELSE [result |-> RTrue,
          bf |-> IF TokenTTL(tok, now) > 0 THEN BloomAdd(bf, k.key) ELSE bf]

\* mutant: the guard `if not key` inverted, so the method returns before the add
BloomInvalidate_NeverAdds(tok, bf, now) ==
    LET k == get_invalidation_cache_key(tok) IN
    IF k.raised THEN [result |-> RValueError, bf |-> bf]
    ELSE IF Truthy(k.key) THEN [result |-> RValueErrorObject, bf |-> bf]
    ELSE [result |-> RTrue, bf |-> BloomAdd(bf, k.key)]

\* invalidate_token against the filter bf: [result, bf]
BloomInvalidate(tok, bf, now) ==
    LET k == get_invalidation_cache_key(tok) IN
    IF k.raised THEN [result |-> RValueError, bf |-> bf]
    ELSE IF ~Truthy(k.key) THEN [result |-> RValueErrorObject, bf |-> bf]
    ELSE [result |-> RTrue, bf |-> BloomAdd(bf, k.key)]

\* mutant: the exact backend's lookup (self.store.get), copied into this backend
BloomValid_ReadsCache(tok, bf, db, now) ==
    LET k == get_invalidation_cache_key(tok) IN
    IF k.raised THEN RValueError
    ELSE IF Truthy(k.key) /\ ReplyTruthy(RedisGet(db, k.key, now)) THEN RFalse
    ELSE RTrue

\* is_token_valid against the filter bf (self.store is the same server, db)
BloomValid(tok, bf, db, now) ==
    LET k == get_invalidation_cache_key(tok) IN
    IF k.raised THEN RValueError
    ELSE IF Truthy(k.key) /\ BloomContains(bf, k.key) THEN RFalse
    ELSE RTrue

\* what is_token_valid(tok) returns in the current state
BloomIsValid(tok) == BloomValid(tok, bits, kv, clock)

----------------------------------------------------------------------------
(* State machine *)

NoneRevoked == [b \in Backends |-> {}]

NumRevoked == Cardinality(revoked["cache"]) + Cardinality(revoked["bloom"])

\* a call that records a new revocation needs room in the history
MayRecord(b, tok) == tok \in revoked[b] \/ NumRevoked < MaxRevoked

Step(op, b, result) == [op |-> op, backend |-> b, result |-> result]

KeyIdle == keyArgs = <<>> /\ keyRes = <<>>

\* main() is not running
BenchIdle ==
    /\ pc = "idle"
    /\ num = 0
    /\ count = 0
    /\ tokens = <<>>
    /\ kls = 0
    /\ idx = 0
    /\ num_errors = 0
    /\ out = <<>>
    /\ log = <<>>
    /\ genAt = <<>>

Init ==
    /\ clock = 0
    /\ kv = EmptyDb
    /\ bits = {}
    /\ revoked = NoneRevoked
    /\ exactLive = {}
    /\ wiped = NoneRevoked
    /\ last = Step("init", "none", RNone)
    /\ KeyIdle
    /\ BenchIdle

Cache_invalidate_token(tok) ==
    LET r == CacheInvalidate(tok, kv, clock) IN
    /\ r.result = RTrue => MayRecord("cache", tok)
    /\ kv' = r.db
    /\ last' = Step("invalidate_token", "cache", r.result)
    /\ IF r.result = RTrue
       THEN /\ revoked' = [revoked EXCEPT !["cache"] = @ \cup {tok}]
            /\ exactLive' = IF tok.exp * Res > clock THEN exactLive \cup {tok} ELSE exactLive
            /\ wiped' = NoneRevoked
       ELSE UNCHANGED <<revoked, exactLive, wiped>>
    /\ UNCHANGED <<clock, bits, keyArgs, keyRes, hvars>>

\* mutant: the lookup consumes the entry (GETDEL instead of GET)
Cache_is_token_valid_Consumes(tok) ==
    /\ last' = Step("is_token_valid", "cache", CacheValid(tok, kv, clock))
    /\ kv' = IF KeyRaises(tok) THEN kv
             ELSE [k \in DOMAIN kv \ {KeyString(tok)} |-> kv[k]]
    /\ UNCHANGED <<clock, bits, revoked, exactLive, wiped, keyArgs, keyRes, hvars>>

Cache_is_token_valid(tok) ==
    /\ last' = Step("is_token_valid", "cache", CacheValid(tok, kv, clock))
    /\ UNCHANGED <<clock, kv, bits, revoked, exactLive, wiped, keyArgs, keyRes, hvars>>

Bloom_invalidate_token(tok) ==
    LET r == BloomInvalidate(tok, bits, clock) IN
    /\ r.result = RTrue => MayRecord("bloom", tok)
    /\ bits' = r.bf
    /\ last' = Step("invalidate_token", "bloom", r.result)
    /\ IF r.result = RTrue
       THEN /\ revoked' = [revoked EXCEPT !["bloom"] = @ \cup {tok}]
            /\ wiped' = NoneRevoked
       ELSE UNCHANGED <<revoked, wiped>>
    /\ UNCHANGED <<clock, kv, exactLive, keyArgs, keyRes, hvars>>

Bloom_is_token_valid(tok) ==
    /\ last' = Step("is_token_valid", "bloom", BloomValid(tok, bits, kv, clock))
    /\ UNCHANGED <<clock, kv, bits, revoked, exactLive, wiped, keyArgs, keyRes, hvars>>

\* info = self.store.info(); return info["used_memory_human"]
mem_stats(b) ==
    /\ last' = Step("mem_stats", b, UsedMemoryHuman(kv, bits))
    /\ UNCHANGED <<clock, kv, bits, revoked, exactLive, wiped, keyArgs, keyRes, hvars>>

\* mutant: each backend deletes only what it stored itself
clear_OwnBackendOnly(b) ==
    /\ kv' = IF b = "cache" THEN EmptyDb ELSE kv
    /\ bits' = IF b = "bloom" THEN {} ELSE bits
    /\ wiped' = revoked
    /\ revoked' = NoneRevoked
    /\ exactLive' = {}
    /\ last' = Step("clear", b, RNone)
    /\ UNCHANGED <<clock, keyArgs, keyRes, hvars>>

\* mutant: only the "jwt-blacklist:*" keys are deleted, the filter's key stays
clear_KeepsFilter(b) ==
    /\ kv' = EmptyDb
    /\ bits' = bits
    /\ wiped' = revoked
    /\ revoked' = NoneRevoked
    /\ exactLive' = {}
    /\ last' = Step("clear", b, RNone)
    /\ UNCHANGED <<clock, keyArgs, keyRes, hvars>>

\* self.store.flushall(): every key of the server, the filter's key included
clear(b) ==
    /\ kv' = EmptyDb
    /\ bits' = {}
    /\ wiped' = revoked
    /\ revoked' = NoneRevoked
    /\ exactLive' = {}
    /\ last' = Step("clear", b, RNone)
    /\ UNCHANGED <<clock, keyArgs, keyRes, hvars>>

\* time passes; redis drops the keys whose time-to-live has run out
Tick ==
    /\ clock < MaxClock
    /\ clock' = clock + 1
    /\ kv' = RedisExpire(kv, clock + 1)
    /\ last' = Step("tick", "none", RNone)
    /\ UNCHANGED <<bits, revoked, exactLive, wiped, keyArgs, keyRes, hvars>>

Next ==
    \/ \E tok \in Tokens : Cache_invalidate_token(tok)
    \/ \E tok \in Tokens : Cache_is_token_valid(tok)
    \/ \E tok \in Tokens : Bloom_invalidate_token(tok)
    \/ \E tok \in Tokens : Bloom_is_token_valid(tok)
    \/ \E b \in Backends : clear(b)
    \/ \E b \in Backends : mem_stats(b)
    \/ Tick

Spec == Init /\ [][Next]_vars

----------------------------------------------------------------------------
(* One instance of each backend, each on a store of its own (kv is the exact *)
(* backend's server, bits the filter's), driven by the same calls            *)

Pair_invalidate_token(tok) ==
    LET c == CacheInvalidate(tok, kv, clock)
        f == BloomInvalidate(tok, bits, clock)
    IN
    /\ c.result = RTrue =>
          (tok \in revoked["cache"] \/ Cardinality(revoked["cache"]) < MaxRevoked)
    /\ kv' = c.db
    /\ bits' = f.bf
    /\ last' = Step("invalidate_token", "both", c.result)
    /\ revoked' = [b \in Backends |->
                     IF (IF b = "cache" THEN c.result ELSE f.result) = RTrue
                     THEN revoked[b] \cup {tok} ELSE revoked[b]]
    /\ exactLive' = IF c.result = RTrue /\ tok.exp * Res > clock
                    THEN exactLive \cup {tok} ELSE exactLive
    /\ wiped' = IF c.result = RTrue \/ f.result = RTrue THEN NoneRevoked ELSE wiped
    /\ UNCHANGED <<clock, keyArgs, keyRes, hvars>>

Pair_clear ==
    /\ kv' = EmptyDb
    /\ bits' = {}
    /\ wiped' = revoked
    /\ revoked' = NoneRevoked
    /\ exactLive' = {}
    /\ last' = Step("clear", "both", RNone)
    /\ UNCHANGED <<clock, keyArgs, keyRes, hvars>>

PairNext ==
    \/ \E tok \in Tokens : Pair_invalidate_token(tok)
    \/ \E tok \in Tokens : Cache_is_token_valid(tok)
    \/ \E tok \in Tokens : Bloom_is_token_valid(tok)
    \/ Pair_clear
    \/ Tick

SpecPair == Init /\ [][PairNext]_vars

----------------------------------------------------------------------------
(* main() and benchmark(): the tokens are generated, then each class of      *)
(* `classes` is constructed, cleared and benchmarked.  A call to the server  *)
(* may fail (redis raises ConnectionError); nothing catches an exception.    *)

\* classes = [CacheTokenInvalidator, BloomFilterTokenInvalidator]
Classes == <<"cache", "bloom">>

\* 60 * 60 * 24 * 14 seconds in the source; here as short as the other tokens' exp
ValidityWindow == MaxExp

\* mutant: the generator's test one too wide
GenMore_OffByOne(c, n) == c <= n

\* if count <= num - 1
GenMore(c, n) == c <= n - 1

\* mutant: the test of is_valid inverted
ErrorsAfter_Inverted(n, result) == IF result = RFalse THEN n + 1 ELSE n

\* if is_valid: num_errors = num_errors + 1
ErrorsAfter(n, result) == IF result = RTrue THEN n + 1 ELSE n

\* mutant: the failed call is caught and tried again
OnError_Retries(p) == p

\* an exception leaves benchmark() and main(): the program ends
OnError(p) == "aborted"

Event(op, k, arg, result) == [op |-> op, kls |-> k, arg |-> arg, result |-> result]

Line(what, k, n, e) == [line |-> what, kls |-> k, n |-> n, e |-> e]

svars == <<revoked, exactLive, wiped, last, keyArgs, keyRes>>

BenchInit ==
    /\ clock = 0
    /\ kv = EmptyDb
    /\ bits = {}
    /\ revoked = NoneRevoked
    /\ exactLive = {}
    /\ wiped = NoneRevoked
    /\ last = Step("init", "none", RNone)
    /\ KeyIdle
    /\ pc = "gen"
    /\ num \in 0..MaxTokens
    /\ count = 0
    /\ tokens = <<>>
    /\ kls = 0
    /\ idx = 0
    /\ num_errors = 0
    /\ out = <<>>
    /\ log = <<>>
    /\ genAt = <<>>

\* the generator yields one token and main appends it to its list
Generate ==
    /\ pc = "gen"
    /\ GenMore(count, num)
    /\ count' = count + 1
    /\ tokens' = Append(tokens, [aud |-> FooBar, jti |-> Uuid(count + 1),
                                  exp |-> IntTime(clock) + ValidityWindow])
    /\ genAt' = Append(genAt, clock)
    /\ log' = Append(log, Event("yield", 0, Uuid(count + 1), RNone))
    /\ UNCHANGED <<clock, kv, bits, svars, pc, num, kls, idx, num_errors, out>>

\* the generator breaks out of its loop; main goes on to the first class
GenerateStop ==
    /\ pc = "gen"
    /\ ~GenMore(count, num)
    /\ count' = count + 1
    /\ pc' = "construct"
    /\ kls' = 1
    /\ UNCHANGED <<clock, kv, bits, svars, num, tokens, idx, num_errors, out, log, genAt>>

\* mutant: clear() forgotten
Construct_SkipsClear ==
    /\ pc = "construct"
    /\ out' = out \o <<Line("-----------", kls, 0, 0), Line("name", kls, 0, 0)>>
    /\ log' = Append(log, Event("construct", kls, <<>>, RNone))
    /\ pc' = "insert"
    /\ idx' = 1
    /\ UNCHANGED <<clock, kv, bits, svars, num, count, tokens, kls, num_errors, genAt>>

\* print("-----------"); print(kls.__name__); cache_invalidator = kls(...)
Construct ==
    /\ pc = "construct"
    /\ out' = out \o <<Line("-----------", kls, 0, 0), Line("name", kls, 0, 0)>>
    /\ log' = Append(log, Event("construct", kls, <<>>, RNone))
    /\ pc' = "clear"
    /\ UNCHANGED <<clock, kv, bits, svars, num, count, tokens, kls, idx, num_errors, genAt>>

\* cache_invalidator.clear()
BenchClear ==
    /\ pc = "clear"
    /\ kv' = EmptyDb
    /\ bits' = {}
    /\ log' = Append(log, Event("clear", kls, <<>>, RNone))
    /\ pc' = "insert"
    /\ idx' = 1
    /\ UNCHANGED <<clock, svars, num, count, tokens, kls, num_errors, out, genAt>>

\* for token in tokens: invalidator.invalidate_token(token)
BenchInsert ==
    /\ pc = "insert"
    /\ idx <= Len(tokens)
    /\ LET tok == tokens[idx]
           c == CacheInvalidate(tok, kv, clock)
           f == BloomInvalidate(tok, bits, clock)
           result == IF Classes[kls] = "cache" THEN c.result ELSE f.result
       IN
       /\ kv' = IF Classes[kls] = "cache" THEN c.db ELSE kv
       /\ bits' = IF Classes[kls] = "bloom" THEN f.bf ELSE bits
       /\ log' = Append(log, Event("invalidate_token", kls, tok.jti, result))
       /\ IF result = RValueError
          THEN pc' = OnError(pc) /\ idx' = idx
          ELSE pc' = pc /\ idx' = idx + 1
    /\ UNCHANGED <<clock, svars, num, count, tokens, kls, num_errors, out, genAt>>

\* print(f"Insert {num_tokens} took {time_taken} seconds."); num_errors = 0
BenchInsertDone ==
    /\ pc = "insert"
    /\ idx > Len(tokens)
    /\ out' = Append(out, Line("Insert", kls, num, 0))
    /\ pc' = "query"
    /\ idx' = 1
    /\ num_errors' = 0
    /\ UNCHANGED <<clock, kv, bits, svars, num, count, tokens, kls, log, genAt>>

\* for token in tokens: is_valid = invalidator.is_token_valid(token); ...
BenchQuery ==
    /\ pc = "query"
    /\ idx <= Len(tokens)
    /\ LET tok == tokens[idx]
           result == IF Classes[kls] = "cache" THEN CacheValid(tok, kv, clock)
                     ELSE BloomValid(tok, bits, kv, clock)
       IN
       /\ log' = Append(log, Event("is_token_valid", kls, tok.jti, result))
       /\ IF result = RValueError
          THEN pc' = OnError(pc) /\ idx' = idx /\ num_errors' = num_errors
          ELSE pc' = pc /\ idx' = idx + 1 /\ num_errors' = ErrorsAfter(num_errors, result)
    /\ UNCHANGED <<clock, kv, bits, svars, num, count, tokens, kls, out, genAt>>

\* mutant: the memory report is left out
BenchQueryDone_SkipsMemStats ==
    /\ pc = "query"
    /\ idx > Len(tokens)
    /\ out' = Append(out, Line("Querying", kls, num, num_errors))
    /\ IF kls < Len(Classes)
       THEN pc' = "construct" /\ kls' = kls + 1
       ELSE pc' = "done" /\ kls' = kls
    /\ UNCHANGED <<clock, kv, bits, svars, num, count, tokens, idx, num_errors, log, genAt>>

\* print(f"Querying {num_tokens} took ..., with {num_errors} false positive")
BenchQueryDone ==
    /\ pc = "query"
    /\ idx > Len(tokens)
    /\ out' = Append(out, Line("Querying", kls, num, num_errors))
    /\ pc' = "mem_stats"
    /\ UNCHANGED <<clock, kv, bits, svars, num, count, tokens, kls, idx, num_errors, log, genAt>>

\* mem_used = invalidator.mem_stats(); print(f"Mem used {mem_used}"); next class
BenchMemStats ==
    /\ pc = "mem_stats"
    /\ log' = Append(log, Event("mem_stats", kls, <<>>, UsedMemoryHuman(kv, bits)))
    /\ out' = Append(out, Line("Mem used", kls, 0, 0))
    /\ IF kls < Len(Classes)
       THEN pc' = "construct" /\ kls' = kls + 1
       ELSE pc' = "done" /\ kls' = kls
    /\ UNCHANGED <<clock, kv, bits, svars, num, count, tokens, idx, num_errors, genAt>>

\* the step at hand calls the server
CallsServer ==
    \/ pc \in {"clear", "mem_stats"}
    \/ pc = "query" /\ idx <= Len(tokens)
    \/ /\ pc = "insert" /\ idx <= Len(tokens)
       /\ (Classes[kls] = "cache" => TokenTTL(tokens[idx], clock) > 0)

\* the call to the server raises
BenchFail ==
    /\ CallsServer
    /\ log' = Append(log, Event("error", kls, <<>>, RNone))
    /\ pc' = OnError(pc)
    /\ UNCHANGED <<clock, kv, bits, svars, num, count, tokens, kls, idx, num_errors, out, genAt>>

BenchNext ==
    \/ Generate
    \/ GenerateStop
    \/ Construct
    \/ BenchClear
    \/ BenchInsert
    \/ BenchInsertDone
    \/ BenchQuery
    \/ BenchQueryDone
    \/ BenchMemStats
    \/ BenchFail
    \/ Tick

SpecBench == BenchInit /\ [][BenchNext]_vars

----------------------------------------------------------------------------
(* Key derivation on its own: two decoded tokens are drawn, then keyed *)

KeyResult(tok) ==
    LET k == get_invalidation_cache_key(tok) IN
    IF k.raised THEN <<RValueError>> ELSE k.key

KeyInit ==
    /\ clock = 0
    /\ kv = EmptyDb
    /\ bits = {}
    /\ revoked = NoneRevoked
    /\ exactLive = {}
    /\ wiped = NoneRevoked
    /\ last = Step("init", "none", RNone)
    /\ keyArgs \in KeyClaims \X KeyClaims
    /\ keyRes = <<>>
    /\ BenchIdle

DeriveKeys ==
    /\ keyRes = <<>>
    /\ keyRes' = <<KeyResult(keyArgs[1]), KeyResult(keyArgs[2])>>
    /\ UNCHANGED <<clock, kv, bits, revoked, exactLive, wiped, last, keyArgs, hvars>>

KeyNext == DeriveKeys

SpecKey == KeyInit /\ [][KeyNext]_vars

----------------------------------------------------------------------------
(* Properties *)

Expired(tok) == tok.exp * Res <= clock

Malformed(tok) == ~Truthy(tok.aud) \/ ~Truthy(tok.jti)

\* C1: probabilistic backend: a token revoked since the last clear() is reported
\* revoked (is_token_valid returns False) in every later state, whatever else is
\* revoked in between and however far the clock advances.
C1_BloomNeverMissesRevocation ==
    \A tok \in revoked["bloom"] : BloomIsValid(tok) = RFalse

\* C1 witness: two tokens revoked through the filter, one of them past its
\* expiry, and is_token_valid has just answered False.
C1_Witness ==
    /\ Cardinality(revoked["bloom"]) >= 2
    /\ \E tok \in revoked["bloom"] : Expired(tok) /\ BloomIsValid(tok) = RFalse
    /\ last = Step("is_token_valid", "bloom", RFalse)

\* C2: exact backend: a token revoked while exp > now is reported revoked at
\* every time strictly before its exp, and valid again once the clock has
\* reached its exp (no clear() in between).
C2_RevokedExactlyUntilExpiry ==
    \A tok \in exactLive :
        /\ ~Expired(tok) => CacheIsValid(tok) = RFalse
        /\ Expired(tok) => CacheIsValid(tok) = RTrue

\* C3: key derivation raises ValueError whenever aud or jti is empty or absent,
\* and returns a key only when both are non-empty.
C3_KeyRaisesWhenEitherMissing ==
    keyRes # <<>> =>
        \A i \in 1..2 : (keyRes[i] = <<RValueError>>) <=> Malformed(keyArgs[i])

\* C4: for a token with a missing aud or jti, invalidate_token and
\* is_token_valid of both backends raise ValueError and leave the store as it was.
C4_MalformedClaimsRaise ==
    [][\A tok \in Tokens : Malformed(tok) =>
          /\ (\/ Cache_invalidate_token(tok) \/ Cache_is_token_valid(tok)
              \/ Bloom_invalidate_token(tok) \/ Bloom_is_token_valid(tok))
                => (last'.result = RValueError /\ kv' = kv /\ bits' = bits)]_vars

\* C5: for well-formed tokens the key is "jwt-blacklist:" + aud + ":" + jti, the
\* same pair always gives the same key, and two different (aud, jti) pairs give
\* different keys.
C5_KeyDeterministicInjective ==
    (keyRes # <<>> /\ ~Malformed(keyArgs[1]) /\ ~Malformed(keyArgs[2])) =>
        /\ \A i \in 1..2 :
              keyRes[i] = KeyPrefix \o keyArgs[i].aud \o <<":">> \o keyArgs[i].jti
        /\ (keyRes[1] = keyRes[2]) <=> (keyArgs[1] = keyArgs[2])

\* C6: exact backend: is_token_valid(c) returns False only if invalidate_token
\* was called since the last clear() for a token with c's (aud, jti).
C6_ExactNoFalsePositive ==
    \A tok \in Tokens :
        CacheIsValid(tok) = RFalse => \E r \in revoked["cache"] : Id(r) = Id(tok)

SoleWriter(b, tok) ==
    /\ tok \in revoked[b]
    /\ \A r \in revoked[b] : KeyString(r) = KeyString(tok) => r = tok

\* C8: invalidate_token on a token that is already revoked (and not yet expired)
\* returns True and changes nothing: the exact backend's entry keeps its expiry
\* moment, the filter keeps its bits.
C8_RevokeIdempotent ==
    [][\A tok \in Tokens :
          /\ (Cache_invalidate_token(tok) /\ SoleWriter("cache", tok) /\ ~Expired(tok))
                => (last'.result = RTrue /\ kv' = kv)
          /\ (Bloom_invalidate_token(tok) /\ SoleWriter("bloom", tok))
                => (last'.result = RTrue /\ bits' = bits)]_vars

\* C9: after clear() every token revoked before it is reported valid by its
\* backend until something is revoked again; the filter, whose handle was opened
\* before the clear(), records a revocation made after it.
C9_ClearForgetsRevocations ==
    /\ [](/\ \A tok \in wiped["cache"] : CacheIsValid(tok) = RTrue
          /\ \A tok \in wiped["bloom"] : BloomIsValid(tok) = RTrue)
    /\ [][\A tok \in wiped["bloom"] :
             Bloom_invalidate_token(tok) => BloomIsValid(tok)' = RFalse]_vars

\* C9 witness: clear() has just erased revocations of both backends.
C9_Witness ==
    /\ last.op = "clear"
    /\ \E tok \in wiped["cache"] : ~Expired(tok)
    /\ wiped["bloom"] # {}

\* C10: probabilistic backend: invalidate_token adds the key whatever the
\* token's exp, so a token revoked after its expiry is reported revoked, and the
\* passing of time never makes a token reported revoked valid again.
C10_BloomHasNoExpiry ==
    [][/\ \A tok \in Tokens :
             (Bloom_invalidate_token(tok) /\ ~KeyRaises(tok)) =>
                 /\ bits' = bits \cup BloomSeeds(KeyString(tok))
                 /\ BloomIsValid(tok)' = RFalse
       /\ Tick => \A tok \in Tokens :
             BloomIsValid(tok) = RFalse => BloomIsValid(tok)' = RFalse]_vars

\* C10 witness: invalidate_token has just returned True at a time when every
\* token is past its expiry, and what it revoked is reported revoked.
C10_Witness ==
    /\ clock = MaxClock
    /\ last = Step("invalidate_token", "bloom", RTrue)
    /\ revoked["bloom"] # {}
    /\ \A tok \in revoked["bloom"] : Expired(tok) /\ BloomIsValid(tok) = RFalse

\* C15: exact backend: every entry in the store is the key of a token revoked
\* since the last clear() whose expiry is still in the future, so there are never
\* more entries than revoked tokens that are currently unexpired.
C15_EntriesAreLiveRevocations ==
    /\ \A k \in DOMAIN kv :
          \E tok \in revoked["cache"] : KeyString(tok) = k /\ ~Expired(tok)
    /\ Cardinality(DOMAIN kv) <= Cardinality({tok \in revoked["cache"] : ~Expired(tok)})

\* C16: clear() through an instance of either backend erases the revocations of
\* both: afterwards both backends report every token valid.
C16_ClearIsStoreWide ==
    [][\A b \in Backends : clear(b) =>
          /\ kv' = EmptyDb /\ bits' = {}
          /\ \A tok \in Tokens : ~KeyRaises(tok) =>
                (CacheIsValid(tok)' = RTrue /\ BloomIsValid(tok)' = RTrue)]_vars

\* C16 witness: clear() through one backend has just erased revocations
\* recorded through the other one only.
C16_Witness ==
    /\ last.op = "clear"
    /\ \E b \in Backends :
          last.backend = b /\ wiped[b] = {} /\ \E o \in Backends : wiped[o] # {}
    /\ \A tok \in Tokens : ~KeyRaises(tok) =>
          (CacheIsValid(tok) = RTrue /\ BloomIsValid(tok) = RTrue)

\* C18: is_token_valid and mem_stats of both backends leave the store (the
\* keys, their times-to-live, the filter's bits) as it was, so every query
\* repeated at the same clock value gives the same answer.
C18_QueriesReadOnly ==
    [][(\/ \E tok \in Tokens : Cache_is_token_valid(tok) \/ Bloom_is_token_valid(tok)
        \/ \E b \in Backends : mem_stats(b))
          => /\ kv' = kv /\ bits' = bits /\ clock' = clock
             /\ \A tok \in Tokens :
                   /\ CacheIsValid(tok)' = CacheIsValid(tok)
                   /\ BloomIsValid(tok)' = BloomIsValid(tok)
             /\ UsedMemoryHuman(kv, bits)' = UsedMemoryHuman(kv, bits)]_vars

\* C18 witness: is_token_valid has just answered False on a store that holds an
\* entry and filter bits.
C18_Witness ==
    /\ last = Step("is_token_valid", "cache", RFalse)
    /\ kv # EmptyDb
    /\ bits # {}

\* C19: with the same invalidate_token and clear calls and the same clock
\* applied to one instance of each backend, whatever the exact backend reports
\* revoked the probabilistic backend reports revoked too.
C19_BloomCoversExact ==
    \A tok \in Tokens : CacheIsValid(tok) = RFalse => BloomIsValid(tok) = RFalse

\* C19 witness: one revoked token is reported revoked by both backends, another
\* has expired out of the exact backend and is still reported revoked by the filter.
C19_Witness ==
    /\ \E tok \in revoked["cache"] : CacheIsValid(tok) = RFalse /\ BloomIsValid(tok) = RFalse
    /\ \E tok \in revoked["cache"] : CacheIsValid(tok) = RTrue /\ BloomIsValid(tok) = RFalse


----------------------------------------------------------------------------
(* The harness                                                               *)

\* the yield and the break of the generator are always taken in the end:
\* its loop calls nothing that blocks
SpecBenchFair == SpecBench /\ WF_vars(Generate) /\ WF_vars(GenerateStop)

IsPrefix(s, t) == Len(s) <= Len(t) /\ \A i \in 1..Len(s) : s[i] = t[i]

\* the operations issued for class k, in order, without their results
Calls(k) ==
    LET own == SelectSeq(log, LAMBDA e : e.kls = k /\ e.op # "error")
    IN [i \in 1..Len(own) |-> <<own[i].op, own[i].arg>>]

\* what main and benchmark issue for one class over the list ts
Protocol(ts) ==
    <<<<"construct", <<>>>>, <<"clear", <<>>>>>>
    \o [i \in 1..Len(ts) |-> <<"invalidate_token", ts[i].jti>>]
    \o [i \in 1..Len(ts) |-> <<"is_token_valid", ts[i].jti>>]
    \o <<<<"mem_stats", <<>>>>>>

\* the is_token_valid calls of class k that returned True
TrueResults(k) ==
    {i \in 1..Len(log) : log[i].op = "is_token_valid" /\ log[i].kls = k /\ log[i].result = RTrue}

NoneExpired == \A i \in 1..Len(tokens) : ~Expired(tokens[i])

\* C11: every "Querying" line reports as its count the number of
\* is_token_valid calls of that backend that returned True; and when the query
\* pass of a backend is over and no claim of the list has expired yet, every
\* is_token_valid call of that pass returned False and the line reports 0.
C11_ErrorCountIsTrueCount ==
    /\ \A i \in 1..Len(out) :
          out[i].line = "Querying" => out[i].e = Cardinality(TrueResults(out[i].kls))
    /\ (pc = "mem_stats" /\ NoneExpired) =>
          /\ TrueResults(kls) = {}
          /\ out[Len(out)] = Line("Querying", kls, num, 0)

C11_Witness ==
    /\ pc = "mem_stats"
    /\ NoneExpired
    /\ Len(tokens) >= 2
    /\ out[Len(out)].line = "Querying"
    /\ out[Len(out)].e = 0

C12_YieldsCount ==
    /\ Len(tokens) <= num
    /\ pc = "gen" => Len(tokens) = count
    /\ pc # "gen" => Len(tokens) = num
    /\ \A i \in 1..Len(tokens) :
          /\ Truthy(tokens[i].aud)
          /\ Truthy(tokens[i].jti)
          /\ tokens[i].exp = IntTime(genAt[i]) + ValidityWindow
    /\ \A i, j \in 1..Len(tokens) : tokens[i].jti = tokens[j].jti => i = j

\* C12: the generator yields exactly num claims (none when num = 0) and then
\* stops; each claim has an audience, an id no other claim of the list has,
\* and an expiry of its generation time in whole seconds plus the window.
C12_GeneratorYieldsExactlyCount == []C12_YieldsCount /\ <>(pc # "gen")

C12_Witness == pc = "construct" /\ num >= 2 /\ Len(tokens) = num /\ count = num + 1

\* C13: all claims are generated before any backend runs, the list does not
\* change afterwards, and what is issued for each backend is a prefix of:
\* construct, clear, invalidate_token over the list in order, is_token_valid
\* over the list in order, mem_stats.
C13_HarnessProtocol ==
    /\ [](/\ \A i, j \in 1..Len(log) : (i < j /\ log[j].op = "yield") => log[i].op = "yield"
          /\ pc # "gen" => \A k \in 1..Len(Classes) : IsPrefix(Calls(k), Protocol(tokens)))
    /\ [][pc # "gen" => tokens' = tokens]_vars

C13_Witness ==
    /\ pc = "done"
    /\ Len(tokens) >= 2
    /\ \A k \in 1..Len(Classes) : Calls(k) = Protocol(tokens)

\* C14: the operations are issued class after class, and a class is
\* constructed only after the memory report of the class before it.
C14_BackendsInSequence ==
    /\ \A i, j \in 1..Len(log) : i < j => log[i].kls <= log[j].kls
    /\ \A j \in 1..Len(log) :
          (log[j].op = "construct" /\ log[j].kls > 1) =>
              \E i \in 1..(j - 1) : log[i].op = "mem_stats" /\ log[i].kls = log[j].kls - 1

C14_Witness ==
    /\ kls = Len(Classes)
    /\ pc = "query"
    /\ \E i \in 1..Len(log) : log[i].kls = 1 /\ log[i].op = "is_token_valid"
    /\ \E j \in 1..Len(log) : log[j].kls = Len(Classes) /\ log[j].op = "invalidate_token"

\* C17: a call that raised is the last thing the program did: it is aborted,
\* and from then on no operation is issued and no line is printed.
C17_ErrorAborts ==
    /\ [](\A i \in 1..Len(log) : log[i].op = "error" => (i = Len(log) /\ pc = "aborted"))
    /\ [][pc = "aborted" => (pc' = "aborted" /\ log' = log /\ out' = out)]_vars

C17_Witness ==
    /\ pc = "aborted"
    /\ Len(log) > 1
    /\ log[Len(log)].op = "error"
    /\ log[Len(log) - 1].op = "invalidate_token"
    /\ \A i \in 1..Len(out) : out[i].line # "Insert"

====
